---- MODULE Spec2Model ----
(***************************************************************************)
(* A model of the tower-defence scene src/game/MainScene.ts and of the     *)
(* commands its host (the App component) sends to it.                       *)
(*                                                                          *)
(* Units.  The scene computes with floating point numbers; the model uses   *)
(* integers in units in which the scene's arithmetic is exact:              *)
(*   - simulated time, fire rates and the spawn cadence in milliseconds;    *)
(*   - enemy speed in thousandths (3.2 + level*0.45 is 3200 + level*450);   *)
(*   - enemy progress t in units of 1/TUnit, so that                        *)
(*       t += speed * scaledDelta / 100000  is  t += speedK * scaledDelta;  *)
(*   - hit points in quarters (HpUnit), which holds every value             *)
(*       damage * 0.5 and damage * 1.25 of an integer damage exactly;       *)
(*   - positions in whole pixels.                                           *)
(* Every handler of the scene is an operator from a scene record to a scene *)
(* record; an action applies one handler to the current state.              *)
(***************************************************************************)
EXTENDS Integers, Sequences, FiniteSets, TLC

\* ---------------------------------------------------------------- bounds
\* frames (world step + update) of one behaviour
MaxTicks == 3
\* commands of the player in one behaviour
MaxCmds == 1

\* ------------------------------------------------------ program constants
Width == 800
Height == 600
StartGold == 500
StartLives == 20
TUnit == 100000000
HpUnit == 4
ProjectileSpeed == 850
ProjectileLifeMs == 8000
ProximityDist == 35

\* null, for a value that is otherwise a record; for a tower type; for a tower
Null == [null |-> TRUE]
NoType == "none"
NoTower == 0

SPEED_LEVELS == {1, 2, 4, 8, 16}
Priorities == {"FIRST", "STRONGEST", "WEAKEST", "CLOSEST"}
Archetypes == {"SCOUT", "SENTINEL", "GOLIATH", "BOSS"}

\* The three tower types the host offers (TOWERS of the App component).
TOWERS ==
  [ basic  |-> [id |-> "basic",  cost |-> 100, damage |-> 10, range |-> 150, fireRate |-> 800],
    sniper |-> [id |-> "sniper", cost |-> 250, damage |-> 40, range |-> 300, fireRate |-> 2500],
    rapid  |-> [id |-> "rapid",  cost |-> 200, damage |-> 4,  range |-> 120, fireRate |-> 200] ]

TowerTypeIds == {"basic", "sniper", "rapid"}

\* -------------------------------------------------------------- arithmetic
Min(a, b) == IF a < b THEN a ELSE b
Max(a, b) == IF a > b THEN a ELSE b

\* Math.floor(x * 1.5) and Math.floor(x * 0.85) of an integer x >= 0
\* Math.round(x * 1.5)
RoundMul150(x) == (x * 3 + 1) \div 2
FloorMul150(x) == (x * 3) \div 2
FloorMul085(x) == (x * 17) \div 20

\* floor of the square root (Newton's iteration from above)
RECURSIVE IsqrtIter(_, _)
IsqrtIter(n, r) ==
  LET next == (r + n \div r) \div 2
  IN IF next >= r THEN r ELSE IsqrtIter(n, next)
Isqrt(n) == IF n <= 0 THEN 0 ELSE IsqrtIter(n, Max(1, Min(n, 2048)))

\* Phaser.Math.Distance.Between, squared (the scene only compares distances)
DistSq(x1, y1, x2, y2) == (x1 - x2) * (x1 - x2) + (y1 - y2) * (y1 - y2)

\* sequence s without its i-th element (Array.splice(i, 1))
RemoveAt(s, i) == SubSeq(s, 1, i - 1) \o SubSeq(s, i + 1, Len(s))

\* ------------------------------------------------------------------- path
\* Math.min(3 + Math.floor(level / 2.5), 15)
Segments(level) == Min(3 + (level * 2) \div 5, 15)

\* The outcomes of Phaser.Math.Between(80, height - 80) for the inner
\* waypoints: a flat route and a zig-zag between the two ends of the band.
PathShapes ==
  { [i \in 1..15 |-> Height \div 2],
    [i \in 1..15 |-> IF i % 2 = 1 THEN 80 ELSE Height - 80] }

\* The waypoints of createPath: the start (-50, height/2), then one point per
\* segment; ys gives the random y of every column but the last.
Waypoints(level, ys) ==
  LET n == Segments(level)
  IN <<[x |-> -50, y |-> Height \div 2]>> \o
     [i \in 1..n |-> [x |-> (Width * i) \div n,
                      y |-> IF i = n THEN Height \div 2 ELSE ys[i]]]

\* cumulative curve lengths of a polyline (Path.getCurveLengths)
RECURSIVE CurveLengths(_, _, _)
CurveLengths(pts, i, acc) ==
  IF i > Len(pts) THEN <<>>
  ELSE LET len == acc + Isqrt(DistSq(pts[i-1].x, pts[i-1].y, pts[i].x, pts[i].y))
       IN <<len>> \o CurveLengths(pts, i + 1, len)

\* A path: its waypoints and its cached cumulative lengths.
MakePath(level, ys) ==
  LET pts == Waypoints(level, ys)
  IN [pts |-> pts, cum |-> CurveLengths(pts, 2, 0)]

\* Phaser.Curves.Path.getPoint(t): the point at the fraction t of the total
\* length; null when t is past the end.
RECURSIVE SegmentAt(_, _, _)
SegmentAt(cum, d, i) ==
  IF i > Len(cum) THEN 0
  ELSE IF cum[i] >= d THEN i ELSE SegmentAt(cum, d, i + 1)

getPoint(p, t) ==
  LET total == p.cum[Len(p.cum)]
      d == ((t \div 1000) * total) \div (TUnit \div 1000)
      i == SegmentAt(p.cum, d, 1)
  IN IF t > TUnit \/ i = 0 THEN Null
     ELSE LET before == IF i = 1 THEN 0 ELSE p.cum[i - 1]
              seglen == p.cum[i] - before
              along == d - before
              a == p.pts[i]
              b == p.pts[i + 1]
          IN IF seglen = 0 THEN [x |-> a.x, y |-> a.y]
             ELSE [x |-> a.x + ((b.x - a.x) * along) \div seglen,
                   y |-> a.y + ((b.y - a.y) * along) \div seglen]

\* ---------------------------------------------------------------- enemies
\* round(level^1.6 * 8 * HpUnit) for level 1..32 (Math.pow(level, 1.6) * 8)
PowTerm ==
  <<32, 97, 186, 294, 420, 563, 720, 891, 1076, 1274, 1484, 1705, 1938, 2183,
    2437, 2702, 2978, 3263, 3558, 3862, 4175, 4498, 4830, 5170, 5519, 5876,
    6242, 6616, 6998, 7388, 7786, 8192>>

\* baseHp = 15 + level^1.6 * 8 + level * 15, in quarters
BaseHp(level) == 15 * HpUnit + PowTerm[level] + level * 15 * HpUnit
\* baseSpeed = 3.2 + level * 0.45, in thousandths
BaseSpeed(level) == 3200 + level * 450

IsBossLevel(level) == level % 10 = 0

\* the roll alone decides, whatever the level
RollArchetypeUngated(level, roll) ==
  IF IsBossLevel(level) THEN "BOSS"
  ELSE IF roll < 25 THEN "GOLIATH"
  ELSE IF roll < 45 THEN "SCOUT"
  ELSE "SENTINEL"

\* The archetype roll of spawnEnemy; roll is Math.random() in hundredths.
RollArchetype(level, roll) ==
  IF IsBossLevel(level) THEN "BOSS"
  ELSE IF level >= 4 /\ roll < 25 THEN "GOLIATH"
  ELSE IF level >= 2 /\ roll < 45 THEN "SCOUT"
  ELSE "SENTINEL"

\* hp = baseHp * hpMultiplier
SpawnHp(level, archetype) ==
  CASE archetype = "SCOUT"   -> BaseHp(level) \div 2
    [] archetype = "GOLIATH" -> BaseHp(level) * 4
    [] archetype = "BOSS"    -> (BaseHp(level) * (30 + level)) \div 2
    [] OTHER                 -> BaseHp(level)

\* speed = baseSpeed * speedMultiplier
SpawnSpeed(level, archetype) ==
  CASE archetype = "SCOUT"   -> (BaseSpeed(level) * 17) \div 10
    [] archetype = "GOLIATH" -> (BaseSpeed(level) * 6) \div 10
    [] archetype = "BOSS"    -> BaseSpeed(level) \div 2
    [] OTHER                 -> BaseSpeed(level)

\* the body size of an enemy (size.w, size.h)
EnemySize(archetype) ==
  CASE archetype = "SCOUT"   -> [w |-> 14, h |-> 24]
    [] archetype = "GOLIATH" -> [w |-> 34, h |-> 34]
    [] archetype = "BOSS"    -> [w |-> 42, h |-> 42]
    [] OTHER                 -> [w |-> 22, h |-> 22]

\* --------------------------------------------------------------- callbacks
\* What a handler has told the host: the snapshots given to onStatsUpdate,
\* the number of onGameOver calls, the values given to onTowerSelected, the
\* rejection cue (camera shake or red flash), the branch of each hit, and the
\* enemies that took a life (leaks) or paid a reward (rewards).
NoOut == [statsUpdates |-> <<>>, gameOver |-> 0, selected |-> <<>>,
          cue |-> "none", hits |-> <<>>, leaks |-> <<>>, rewards |-> <<>>]

onStatsUpdate(s) == [s EXCEPT !.out.statsUpdates = Append(@, s.stats)]
onGameOver(s) == [s EXCEPT !.out.gameOver = @ + 1]
onTowerSelected(s, v) == [s EXCEPT !.out.selected = Append(@, v)]

\* ------------------------------------------------------------------ scene
\* The field initialisers of the class.
Constructed ==
  [ stats |-> [gold |-> StartGold, lives |-> StartLives, level |-> 1, score |-> 0,
               towerCount |-> 0, waveActive |-> FALSE, gameSpeed |-> 1],
    templates |-> TOWERS,
    currentTowerType |-> NoType,
    selectedTowerObject |-> NoTower,
    nextEnemyTime |-> 0,
    enemiesRemaining |-> 0,
    waveInProgress |-> FALSE,
    scaledTime |-> 0,
    timeScale |-> 1,
    path |-> Null,
    enemies |-> <<>>,
    towers |-> <<>>,
    projectiles |-> <<>>,
    nextId |-> 1,
    out |-> NoOut ]

init(s) ==
  [s EXCEPT !.stats = [gold |-> StartGold, lives |-> StartLives, level |-> 1,
                       score |-> 0, towerCount |-> 0, waveActive |-> FALSE,
                       gameSpeed |-> 1],
            !.selectedTowerObject = NoTower,
            !.scaledTime = 0,
            !.timeScale = 1]

createPath(s, ys) == [s EXCEPT !.path = MakePath(s.stats.level, ys)]

\* create(): fresh groups, the path, and the first stats update
create(s, ys) ==
  onStatsUpdate(createPath([s EXCEPT !.enemies = <<>>, !.towers = <<>>,
                                     !.projectiles = <<>>], ys))

setGameSpeed(s, multiplier) ==
  [s EXCEPT !.timeScale = multiplier, !.stats.gameSpeed = multiplier]

\* true when a sample of the route (t = 0, 0.005, ..., 1) is closer than 35
checkPathProximity(s, x, y) ==
  IF s.path = Null THEN FALSE
  ELSE \E k \in 0..200 :
         LET p == getPoint(s.path, k * (TUnit \div 200))
         IN p # Null /\ DistSq(x, y, p.x, p.y) < ProximityDist * ProximityDist

selectTower(s, i) ==
  LET tower == s.towers[i]
  IN onTowerSelected([s EXCEPT !.selectedTowerObject = i],
                     [id |-> tower.id, x |-> tower.x, y |-> tower.y,
                      config |-> tower.config,
                      targetingPriority |-> tower.targetingPriority,
                      level |-> tower.level])

deselectTower(s) == onTowerSelected([s EXCEPT !.selectedTowerObject = NoTower], Null)

\* the index of the first tower with this id, 0 when there is none
FindTower(s, towerId) ==
  IF \E i \in 1..Len(s.towers) : s.towers[i].id = towerId
  THEN CHOOSE i \in 1..Len(s.towers) :
         /\ s.towers[i].id = towerId
         /\ \A j \in 1..(i - 1) : s.towers[j].id # towerId
  ELSE 0

\* placeTower without the gold check
placeTowerOnCredit(s, x, y, dateNow) ==
  IF s.currentTowerType = NoType THEN s
  ELSE IF checkPathProximity(s, x, y)
       THEN [s EXCEPT !.out.cue = "flash"]
  ELSE LET type == s.templates[s.currentTowerType]
           tower == [id |-> dateNow, x |-> x, y |-> y, level |-> 1,
                     config |-> type, targetingPriority |-> "FIRST",
                     nextFire |-> 0]
       IN onStatsUpdate([s EXCEPT !.stats.gold = @ - type.cost,
                                  !.stats.towerCount = @ + 1,
                                  !.towers = Append(@, tower),
                                  !.out.cue = "placed"])

\* placeTower that spends what gold there is when the cost is higher
placeTowerClamped(s, x, y, dateNow) ==
  IF s.currentTowerType = NoType THEN s
  ELSE IF checkPathProximity(s, x, y)
       THEN [s EXCEPT !.out.cue = "flash"]
  ELSE LET type == s.templates[s.currentTowerType]
           tower == [id |-> dateNow, x |-> x, y |-> y, level |-> 1,
                     config |-> type, targetingPriority |-> "FIRST",
                     nextFire |-> 0]
       IN onStatsUpdate([s EXCEPT !.stats.gold = Max(0, @ - type.cost),
                                  !.stats.towerCount = @ + 1,
                                  !.towers = Append(@, tower),
                                  !.out.cue = "placed"])

\* a placement the tower count does not record
placeTowerUncounted(s, x, y, dateNow) ==
  IF s.currentTowerType = NoType THEN s
  ELSE IF s.stats.gold < s.templates[s.currentTowerType].cost
       THEN [s EXCEPT !.out.cue = "shake"]
  ELSE IF checkPathProximity(s, x, y)
       THEN [s EXCEPT !.out.cue = "flash"]
  ELSE LET type == s.templates[s.currentTowerType]
           tower == [id |-> dateNow, x |-> x, y |-> y, level |-> 1,
                     config |-> type, targetingPriority |-> "FIRST",
                     nextFire |-> 0]
       IN onStatsUpdate([s EXCEPT !.stats.gold = @ - type.cost,
                                  !.towers = Append(@, tower),
                                  !.out.cue = "placed"])

\* placeTower without the route check
placeTowerAnywhere(s, x, y, dateNow) ==
  IF s.currentTowerType = NoType THEN s
  ELSE IF s.stats.gold < s.templates[s.currentTowerType].cost
       THEN [s EXCEPT !.out.cue = "shake"]
  ELSE LET type == s.templates[s.currentTowerType]
           tower == [id |-> dateNow, x |-> x, y |-> y, level |-> 1,
                     config |-> type, targetingPriority |-> "FIRST",
                     nextFire |-> 0]
       IN onStatsUpdate([s EXCEPT !.stats.gold = @ - type.cost,
                                  !.stats.towerCount = @ + 1,
                                  !.towers = Append(@, tower),
                                  !.out.cue = "placed"])

placeTower(s, x, y, dateNow) ==
  IF s.currentTowerType = NoType THEN s
  ELSE IF s.stats.gold < s.templates[s.currentTowerType].cost
       THEN [s EXCEPT !.out.cue = "shake"]
  ELSE IF checkPathProximity(s, x, y)
       THEN [s EXCEPT !.out.cue = "flash"]
  ELSE LET type == s.templates[s.currentTowerType]
           tower == [id |-> dateNow, x |-> x, y |-> y, level |-> 1,
                     config |-> type, targetingPriority |-> "FIRST",
                     nextFire |-> 0]
       IN onStatsUpdate([s EXCEPT !.stats.gold = @ - type.cost,
                                  !.stats.towerCount = @ + 1,
                                  !.towers = Append(@, tower),
                                  !.out.cue = "placed"])

\* the scene's pointerdown handler for a click on empty ground
pointerdown(s, x, y, dateNow) ==
  LET s1 == IF s.currentTowerType = NoType THEN deselectTower(s) ELSE s
  IN IF s1.currentTowerType # NoType THEN placeTower(s1, x, y, dateNow) ELSE s1

\* a click on tower i: the tower's own handler, which stops the event before
\* it reaches the scene's
towerPointerdown(s, i) == selectTower(s, i)

\* the towers whose 38 x 38 rectangle holds the point (x, y)
TowersAt(s, x, y) ==
  { i \in 1..Len(s.towers) :
      LET dx == IF x > s.towers[i].x THEN x - s.towers[i].x ELSE s.towers[i].x - x
          dy == IF y > s.towers[i].y THEN y - s.towers[i].y ELSE s.towers[i].y - y
      IN 2 * dx <= 38 /\ 2 * dy <= 38 }

\* upgradeTower on a config that is the type's own object, not a copy of it
upgradeTowerShared(s, towerId) ==
  LET i == FindTower(s, towerId)
  IN IF i = 0 THEN s
     ELSE LET id == s.towers[i].config.id
          IN selectTower([s EXCEPT !.towers[i].level = @ + 1,
                                   !.towers[i].config.damage = FloorMul150(@),
                                   !.towers[i].config.fireRate = FloorMul085(@),
                                   !.templates[id].damage = FloorMul150(@),
                                   !.templates[id].fireRate = FloorMul085(@)], i)

upgradeTower(s, towerId) ==
  LET i == FindTower(s, towerId)
  IN IF i = 0 THEN s
     ELSE selectTower([s EXCEPT !.towers[i].level = @ + 1,
                                !.towers[i].config.damage = FloorMul150(@),
                                !.towers[i].config.fireRate = FloorMul085(@)], i)

updateTowerPriority(s, towerId, priority) ==
  LET i == FindTower(s, towerId)
  IN IF i = 0 THEN s
     ELSE LET s1 == [s EXCEPT !.towers[i].targetingPriority = priority]
          IN IF s.selectedTowerObject # NoTower
                /\ s.towers[s.selectedTowerObject].id = towerId
             THEN selectTower(s1, i) ELSE s1

setTowerType(s, type) ==
  LET s1 == [s EXCEPT !.currentTowerType = type]
  IN IF type # NoType THEN deselectTower(s1) ELSE s1

\* the wave size without the boss levels
WaveSizePlain(level) == 20 + level * 8

\* enemies of a wave: boss levels max(1, floor(level/5)), else 20 + floor(level*8)
WaveSize(level) ==
  IF IsBossLevel(level) THEN Max(1, level \div 5) ELSE 20 + level * 8

\* startWave without the guard on a wave in progress
startWaveAgain(s) ==
  onStatsUpdate([s EXCEPT !.waveInProgress = TRUE,
                          !.stats.waveActive = TRUE,
                          !.enemiesRemaining = WaveSize(s.stats.level)])

startWave(s) ==
  IF s.waveInProgress THEN s
  ELSE onStatsUpdate([s EXCEPT !.waveInProgress = TRUE,
                               !.stats.waveActive = TRUE,
                               !.enemiesRemaining = WaveSize(s.stats.level)])

\* completeLevel that pays the bonus of the level just completed
completeLevelOldBonus(s, ys) ==
  LET s1 == [s EXCEPT !.waveInProgress = FALSE,
                      !.stats.waveActive = FALSE,
                      !.stats.level = @ + 1]
      s2 == onStatsUpdate([s1 EXCEPT !.stats.gold = @ + 350 + s.stats.level * 60])
  IN IF s2.stats.level > 30 THEN onGameOver(s2) ELSE createPath(s2, ys)

\* completeLevel that also gives a life back
completeLevelHealed(s, ys) ==
  LET s1 == [s EXCEPT !.waveInProgress = FALSE,
                      !.stats.waveActive = FALSE,
                      !.stats.level = @ + 1,
                      !.stats.lives = @ + 1]
      s2 == onStatsUpdate([s1 EXCEPT !.stats.gold = @ + 350 + s1.stats.level * 60])
  IN IF s2.stats.level > 30 THEN onGameOver(s2) ELSE createPath(s2, ys)

completeLevel(s, ys) ==
  LET s1 == [s EXCEPT !.waveInProgress = FALSE,
                      !.stats.waveActive = FALSE,
                      !.stats.level = @ + 1]
      s2 == onStatsUpdate([s1 EXCEPT !.stats.gold = @ + 350 + s1.stats.level * 60])
  IN IF s2.stats.level > 30 THEN onGameOver(s2) ELSE createPath(s2, ys)

\* ----------------------------------------------------------------- combat
IsActiveEnemy(s, id) == \E i \in 1..Len(s.enemies) : s.enemies[i].id = id
IsActiveProjectile(s, id) == \E i \in 1..Len(s.projectiles) : s.projectiles[i].id = id
EnemyIndex(s, id) == CHOOSE i \in 1..Len(s.enemies) : s.enemies[i].id = id
ProjectileIndex(s, id) == CHOOSE i \in 1..Len(s.projectiles) : s.projectiles[i].id = id

InRange(tower, e) ==
  DistSq(tower.x, tower.y, e.x, e.y) <= tower.config.range * tower.config.range

\* the comparison of the reducer of a tower's priority: prev is kept
Better(tower, prev, curr) ==
  CASE tower.targetingPriority = "FIRST" -> prev.t > curr.t
    [] tower.targetingPriority = "STRONGEST" -> prev.hp > curr.hp
    [] tower.targetingPriority = "WEAKEST" -> prev.hp < curr.hp
    [] OTHER -> DistSq(tower.x, tower.y, prev.x, prev.y)
                  < DistSq(tower.x, tower.y, curr.x, curr.y)

\* Array.reduce((prev, curr) => better ? prev : curr) from the left
RECURSIVE Reduce(_, _, _, _)
Reduce(tower, seq, i, prev) ==
  IF i > Len(seq) THEN prev
  ELSE Reduce(tower, seq, i + 1, IF Better(tower, prev, seq[i]) THEN prev ELSE seq[i])

\* the oldest enemy in range, whatever the priority
getOldestTarget(s, tower) ==
  LET inRange == SelectSeq(s.enemies, LAMBDA e : InRange(tower, e))
  IN IF Len(inRange) = 0 THEN Null ELSE inRange[1]

\* the enemy a tower fires at, Null when none is in range
getPriorityTarget(s, tower) ==
  LET inRange == SelectSeq(s.enemies, LAMBDA e : InRange(tower, e))
  IN IF Len(inRange) = 0 THEN Null ELSE Reduce(tower, inRange, 2, inRange[1])

\* physics.moveToObject(p, target, 850): a velocity of 850 px/s towards the
\* target's position; rem is the distance to that position.
moveToObject(p, target) ==
  LET dx == target.x - p.x
      dy == target.y - p.y
      len == Isqrt(dx * dx + dy * dy)
  IN [p EXCEPT !.vx = IF len = 0 THEN ProjectileSpeed ELSE (ProjectileSpeed * dx) \div len,
               !.vy = IF len = 0 THEN 0 ELSE (ProjectileSpeed * dy) \div len,
               !.ax = target.x, !.ay = target.y, !.rem = len]

shoot(s, tower, target) ==
  LET p == [id |-> s.nextId, damage |-> tower.config.damage,
            towerId |-> tower.config.id, target |-> target.id,
            x |-> tower.x, y |-> tower.y, vx |-> 0, vy |-> 0,
            ax |-> tower.x, ay |-> tower.y, rem |-> 0,
            life |-> ProjectileLifeMs \div s.timeScale]
  IN [s EXCEPT !.projectiles = Append(@, moveToObject(p, target)),
               !.nextId = @ + 1]

\* the factors applied whatever the archetype of the enemy
FinalDamageAll(damage, towerId, archetype) ==
  LET d1 == IF towerId = "rapid" THEN (damage * HpUnit) \div 2 ELSE damage * HpUnit
  IN IF towerId = "sniper" THEN (d1 * 5) \div 4 ELSE d1

\* damage of a hit in quarters: halved for "rapid", times 1.25 for "sniper",
\* against GOLIATH and BOSS
FinalDamage(damage, towerId, archetype) ==
  LET heavy == archetype \in {"GOLIATH", "BOSS"}
      d1 == IF heavy /\ towerId = "rapid" THEN (damage * HpUnit) \div 2 ELSE damage * HpUnit
  IN IF heavy /\ towerId = "sniper" THEN (d1 * 5) \div 4 ELSE d1

\* the reward without the archetype's factor
GoldRewardFlat(level, archetype) == 40 + level * 8

GoldReward(level, archetype) ==
  LET base == 40 + level * 8
  IN CASE archetype = "GOLIATH" -> (base * 5) \div 2
       [] archetype = "BOSS" -> base * 10
       [] OTHER -> base

ScoreReward(level, archetype) ==
  LET base == 800 * level
  IN CASE archetype = "GOLIATH" -> base * 2
       [] archetype = "BOSS" -> base * 10
       [] OTHER -> base

\* a hit that leaves the enemy in place whatever hp it has left
handleHitSparing(s, pid, eid) ==
  IF ~IsActiveProjectile(s, pid) \/ ~IsActiveEnemy(s, eid) THEN s
  ELSE LET pi == ProjectileIndex(s, pid)
           ei == EnemyIndex(s, eid)
           projectile == s.projectiles[pi]
           enemy == s.enemies[ei]
           finalDamage == FinalDamage(projectile.damage, projectile.towerId, enemy.archetype)
       IN [s EXCEPT !.enemies[ei].hp = @ - finalDamage,
                    !.projectiles = RemoveAt(@, pi),
                    !.out.hits = Append(@, [enemy |-> eid, projectile |-> pid,
                                            damage |-> finalDamage, kind |-> "normal"])]

\* a projectile that outlives its hit
handleHitPiercing(s, pid, eid) ==
  IF ~IsActiveProjectile(s, pid) \/ ~IsActiveEnemy(s, eid) THEN s
  ELSE LET ei == EnemyIndex(s, eid)
           projectile == s.projectiles[ProjectileIndex(s, pid)]
           enemy == s.enemies[ei]
           finalDamage == FinalDamage(projectile.damage, projectile.towerId, enemy.archetype)
           s1 == [s EXCEPT !.enemies[ei].hp = @ - finalDamage,
                           !.out.hits = Append(@, [enemy |-> eid, projectile |-> pid,
                                                   damage |-> finalDamage, kind |-> "normal"])]
       IN IF enemy.hp - finalDamage <= 0
          THEN LET s2 == onStatsUpdate(
                           [s1 EXCEPT !.stats.gold = @ + GoldReward(s.stats.level, enemy.archetype),
                                      !.stats.score = @ + ScoreReward(s.stats.level, enemy.archetype),
                                      !.out.rewards = Append(@, eid)])
               IN [s2 EXCEPT !.enemies = RemoveAt(@, ei)]
          ELSE s1

\* the overlap callback of the projectile and enemy groups
handleHit(s, pid, eid) ==
  IF ~IsActiveProjectile(s, pid) \/ ~IsActiveEnemy(s, eid) THEN s
  ELSE LET pi == ProjectileIndex(s, pid)
           ei == EnemyIndex(s, eid)
           projectile == s.projectiles[pi]
           enemy == s.enemies[ei]
           base == projectile.damage * HpUnit
           finalDamage == FinalDamage(projectile.damage, projectile.towerId, enemy.archetype)
           hp == enemy.hp - finalDamage
           kind == IF finalDamage < base THEN "resisted"
                   ELSE IF finalDamage > base THEN "critical" ELSE "normal"
           s1 == [s EXCEPT !.enemies[ei].hp = hp,
                           !.projectiles = RemoveAt(@, pi),
                           !.out.hits = Append(@, [enemy |-> eid, projectile |-> pid,
                                                   damage |-> finalDamage, kind |-> kind])]
       IN IF hp <= 0
          THEN LET s2 == onStatsUpdate(
                           [s1 EXCEPT !.stats.gold = @ + GoldReward(s.stats.level, enemy.archetype),
                                      !.stats.score = @ + ScoreReward(s.stats.level, enemy.archetype),
                                      !.out.rewards = Append(@, eid)])
               IN [s2 EXCEPT !.enemies = RemoveAt(@, ei)]
          ELSE s1

\* ------------------------------------------------------------------ update
spawnEnemy(s, roll) ==
  IF s.path = Null THEN s
  ELSE LET level == s.stats.level
           archetype == RollArchetype(level, roll)
           startPoint == getPoint(s.path, 0)
           hp == SpawnHp(level, archetype)
           enemy == [id |-> s.nextId, archetype |-> archetype, hp |-> hp, maxHp |-> hp,
                     speed |-> SpawnSpeed(level, archetype), t |-> 0,
                     x |-> startPoint.x, y |-> startPoint.y]
       IN [s EXCEPT !.enemies = Append(@, enemy), !.nextId = @ + 1]

\* 1200 / (1 + level * 0.4), rounded down: simulated time is a whole number, so
\* scaledTime > nextEnemyTime compares as in the scene
SpawnInterval(level) == 6000 \div (5 + 2 * level)

\* a spawn in every tick of a wave, whatever nextEnemyTime
SpawnStepEager(s, roll) ==
  IF s.waveInProgress /\ s.enemiesRemaining > 0
  THEN [spawnEnemy(s, roll) EXCEPT !.enemiesRemaining = @ - 1,
                                   !.nextEnemyTime = s.scaledTime + SpawnInterval(s.stats.level)]
  ELSE s

\* the spawn of update: at most one enemy per tick
SpawnStep(s, roll) ==
  IF s.waveInProgress /\ s.enemiesRemaining > 0 /\ s.scaledTime > s.nextEnemyTime
  THEN [spawnEnemy(s, roll) EXCEPT !.enemiesRemaining = @ - 1,
                                   !.nextEnemyTime = s.scaledTime + SpawnInterval(s.stats.level)]
  ELSE s

\* a wave that is completed only while lives are left
CompleteStepAlive(s, ys) ==
  IF s.waveInProgress /\ s.enemiesRemaining = 0 /\ Len(s.enemies) = 0
     /\ s.stats.lives > 0
  THEN completeLevel(s, ys) ELSE s

\* the completion check without the count of active enemies
CompleteStepEarly(s, ys) ==
  IF s.waveInProgress /\ s.enemiesRemaining = 0
  THEN completeLevel(s, ys) ELSE s

\* the completion check of update
CompleteStep(s, ys) ==
  IF s.waveInProgress /\ s.enemiesRemaining = 0 /\ Len(s.enemies) = 0
  THEN completeLevel(s, ys) ELSE s

\* the firing loop with a cooldown that starts whenever a tower is ready,
\* target or not
RECURSIVE FireStepCooldown(_, _)
FireStepCooldown(s, i) ==
  IF i > Len(s.towers) THEN s
  ELSE LET towerObj == s.towers[i]
           ready == s.scaledTime > towerObj.nextFire
           target == IF ready THEN getPriorityTarget(s, towerObj) ELSE Null
           s1 == IF ready
                 THEN [s EXCEPT !.towers[i].nextFire = s.scaledTime + towerObj.config.fireRate]
                 ELSE s
       IN FireStepCooldown(IF target # Null THEN shoot(s1, towerObj, target) ELSE s1, i + 1)

\* a tower that is ready again from the moment it has fired
RECURSIVE FireStepNoReload(_, _)
FireStepNoReload(s, i) ==
  IF i > Len(s.towers) THEN s
  ELSE LET towerObj == s.towers[i]
           target == IF s.scaledTime > towerObj.nextFire
                     THEN getPriorityTarget(s, towerObj) ELSE Null
       IN IF target # Null
          THEN FireStepNoReload([shoot(s, towerObj, target) EXCEPT
                                   !.towers[i].nextFire = s.scaledTime],
                                i + 1)
          ELSE FireStepNoReload(s, i + 1)

\* towers.getChildren().forEach: every ready tower with a target fires
RECURSIVE FireStep(_, _)
FireStep(s, i) ==
  IF i > Len(s.towers) THEN s
  ELSE LET towerObj == s.towers[i]
           target == IF s.scaledTime > towerObj.nextFire
                     THEN getPriorityTarget(s, towerObj) ELSE Null
       IN IF target # Null
          THEN FireStep([shoot(s, towerObj, target) EXCEPT
                           !.towers[i].nextFire = s.scaledTime + towerObj.config.fireRate],
                        i + 1)
          ELSE FireStep(s, i + 1)

\* the movement loop with the game over only once lives is below zero
RECURSIVE MoveStepPastZero(_, _, _)
MoveStepPastZero(s, i, scaledDelta) ==
  IF i > Len(s.enemies) THEN s
  ELSE LET enemy == s.enemies[i]
           t == enemy.t + enemy.speed * scaledDelta
           pos == getPoint(s.path, t)
           moved == [enemy EXCEPT !.t = t,
                                  !.x = IF pos = Null THEN @ ELSE pos.x,
                                  !.y = IF pos = Null THEN @ ELSE pos.y]
       IN IF t >= TUnit
          THEN LET s1 == onStatsUpdate([s EXCEPT !.stats.lives = @ - 1,
                                                 !.out.leaks = Append(@, enemy.id)])
                   s2 == [s1 EXCEPT !.enemies = RemoveAt(@, i)]
                   s3 == IF s2.stats.lives < 0 THEN onGameOver(s2) ELSE s2
               IN MoveStepPastZero(s3, i + 1, scaledDelta)
          ELSE MoveStepPastZero([s EXCEPT !.enemies[i] = moved], i + 1, scaledDelta)

\* the movement loop with an enemy that stays at the core after taking a life
RECURSIVE MoveStepLinger(_, _, _)
MoveStepLinger(s, i, scaledDelta) ==
  IF i > Len(s.enemies) THEN s
  ELSE LET enemy == s.enemies[i]
           t == enemy.t + enemy.speed * scaledDelta
           pos == getPoint(s.path, t)
           moved == [enemy EXCEPT !.t = t,
                                  !.x = IF pos = Null THEN @ ELSE pos.x,
                                  !.y = IF pos = Null THEN @ ELSE pos.y]
           s0 == [s EXCEPT !.enemies[i] = moved]
       IN IF t >= TUnit
          THEN LET s1 == onStatsUpdate([s EXCEPT !.stats.lives = @ - 1,
                                                  !.out.leaks = Append(@, enemy.id)])
                   s3 == IF s1.stats.lives <= 0 THEN onGameOver(s1) ELSE s1
               IN MoveStepLinger(s3, i + 1, scaledDelta)
          ELSE MoveStepLinger(s0, i + 1, scaledDelta)

\* enemies.getChildren().forEach over the group's own array: destroy() removes
\* the enemy from that array while the loop runs, and the loop goes on at the
\* next index
RECURSIVE MoveStep(_, _, _)
MoveStep(s, i, scaledDelta) ==
  IF i > Len(s.enemies) THEN s
  ELSE LET enemy == s.enemies[i]
           t == enemy.t + enemy.speed * scaledDelta
           pos == getPoint(s.path, t)
           moved == [enemy EXCEPT !.t = t,
                                  !.x = IF pos = Null THEN @ ELSE pos.x,
                                  !.y = IF pos = Null THEN @ ELSE pos.y]
       IN IF t >= TUnit
          THEN LET s1 == onStatsUpdate([s EXCEPT !.stats.lives = @ - 1,
                                                 !.out.leaks = Append(@, enemy.id)])
                   s2 == [s1 EXCEPT !.enemies = RemoveAt(@, i)]
                   s3 == IF s2.stats.lives <= 0 THEN onGameOver(s2) ELSE s2
               IN MoveStep(s3, i + 1, scaledDelta)
          ELSE MoveStep([s EXCEPT !.enemies[i] = moved], i + 1, scaledDelta)

\* projectiles.getChildren().forEach, over the group's own array as well
RECURSIVE ProjectileStep(_, _)
ProjectileStep(s, i) ==
  IF i > Len(s.projectiles) THEN s
  ELSE LET p == s.projectiles[i]
       IN IF ~IsActiveEnemy(s, p.target)
          THEN ProjectileStep([s EXCEPT !.projectiles = RemoveAt(@, i)], i + 1)
          ELSE ProjectileStep(
                 [s EXCEPT !.projectiles[i] =
                             moveToObject(p, s.enemies[EnemyIndex(s, p.target)])],
                 i + 1)

update(s, delta, roll, ys) ==
  LET scaledDelta == delta * s.timeScale
      s1 == [s EXCEPT !.scaledTime = @ + scaledDelta]
      s2 == SpawnStep(s1, roll)
      s3 == CompleteStep(s2, ys)
      s4 == FireStep(s3, 1)
      s5 == MoveStep(s4, 1, scaledDelta)
  IN ProjectileStep(s5, 1)

\* ------------------------------------------------------------- world step
\* The engine's part of a frame, before update: the clock fires the lifetime
\* timers, the physics world moves every projectile along its velocity (not
\* past the point it was aimed at, where the engine's fixed steps find the
\* overlap) and reports the overlapping (projectile, enemy) pairs.
\* the clock: a projectile whose lifetime has run out is destroyed
RECURSIVE ExpireFrom(_, _, _)
ExpireFrom(ps, i, elapsed) ==
  IF i > Len(ps) THEN ps
  ELSE IF ps[i].life <= elapsed THEN ExpireFrom(RemoveAt(ps, i), i, elapsed)
  ELSE ExpireFrom([ps EXCEPT ![i].life = @ - elapsed], i + 1, elapsed)

ExpireStep(s, delta) ==
  [s EXCEPT !.projectiles = ExpireFrom(@, 1, delta * s.timeScale)]

MoveProjectile(p, reach) ==
  IF p.rem > 0
  THEN IF reach >= p.rem
       THEN [p EXCEPT !.x = p.ax, !.y = p.ay, !.rem = 0]
       ELSE [p EXCEPT !.x = @ + (p.vx * reach) \div ProjectileSpeed,
                      !.y = @ + (p.vy * reach) \div ProjectileSpeed,
                      !.rem = @ - reach]
  ELSE [p EXCEPT !.x = @ + (p.vx * reach) \div ProjectileSpeed,
                 !.y = @ + (p.vy * reach) \div ProjectileSpeed]

RECURSIVE MoveFrom(_, _, _)
MoveFrom(ps, i, reach) ==
  IF i > Len(ps) THEN ps
  ELSE MoveFrom([ps EXCEPT ![i] = MoveProjectile(ps[i], reach)], i + 1, reach)

worldStep(s, delta) ==
  LET s1 == ExpireStep(s, delta)
      reach == (ProjectileSpeed * delta * s.timeScale) \div 1000
  IN [s1 EXCEPT !.projectiles = MoveFrom(@, 1, reach)]

\* the bodies overlap: projectile 12 x 12, enemy size.w x size.h
Overlap(p, e) ==
  LET size == EnemySize(e.archetype)
      dx == IF p.x > e.x THEN p.x - e.x ELSE e.x - p.x
      dy == IF p.y > e.y THEN p.y - e.y ELSE e.y - p.y
  IN 2 * dx < 12 + size.w /\ 2 * dy < 12 + size.h

Overlaps(s) ==
  { <<s.projectiles[i].id, s.enemies[j].id>> :
      <<i, j>> \in { c \in (1..Len(s.projectiles)) \X (1..Len(s.enemies)) :
                       Overlap(s.projectiles[c[1]], s.enemies[c[2]]) } }

\* ------------------------------------------------------------------ state
VARIABLES
  templates,  \* the host's tower type objects, which setTowerType hands over
  stats, currentTowerType, selectedTowerObject, nextEnemyTime, enemiesRemaining,
  waveInProgress, scaledTime, timeScale, path, enemies, towers, projectiles,
  nextId,     \* identity of the next game object the scene creates
  out,        \* the callbacks of the last handler
  last,       \* the last handler and its arguments
  before,     \* the scene that handler was applied to
  pc,         \* "idle" between frames, "collide" inside a frame before update
  pending,    \* overlapping pairs whose callback the engine has yet to run
  delta,      \* the frame time of the frame in progress, in milliseconds
  now,        \* Date.now()
  ticks, cmds \* frames and commands so far

vars == <<templates, stats, currentTowerType, selectedTowerObject, nextEnemyTime,
          enemiesRemaining, waveInProgress, scaledTime, timeScale, path, enemies,
          towers, projectiles, nextId, out, last, before, pc, pending, delta, now,
          ticks, cmds>>

\* the scene as a record, and the state in which the scene is s
Scene ==
  [ templates |-> templates, stats |-> stats, currentTowerType |-> currentTowerType,
    selectedTowerObject |-> selectedTowerObject, nextEnemyTime |-> nextEnemyTime,
    enemiesRemaining |-> enemiesRemaining, waveInProgress |-> waveInProgress,
    scaledTime |-> scaledTime, timeScale |-> timeScale, path |-> path,
    enemies |-> enemies, towers |-> towers, projectiles |-> projectiles,
    nextId |-> nextId, out |-> NoOut ]

SceneIs(s) ==
  /\ templates = s.templates
  /\ stats = s.stats /\ currentTowerType = s.currentTowerType
  /\ selectedTowerObject = s.selectedTowerObject /\ nextEnemyTime = s.nextEnemyTime
  /\ enemiesRemaining = s.enemiesRemaining /\ waveInProgress = s.waveInProgress
  /\ scaledTime = s.scaledTime /\ timeScale = s.timeScale /\ path = s.path
  /\ enemies = s.enemies /\ towers = s.towers /\ projectiles = s.projectiles
  /\ nextId = s.nextId /\ out = s.out

Becomes(s) ==
  /\ templates' = s.templates
  /\ stats' = s.stats /\ currentTowerType' = s.currentTowerType
  /\ selectedTowerObject' = s.selectedTowerObject /\ nextEnemyTime' = s.nextEnemyTime
  /\ enemiesRemaining' = s.enemiesRemaining /\ waveInProgress' = s.waveInProgress
  /\ scaledTime' = s.scaledTime /\ timeScale' = s.timeScale /\ path' = s.path
  /\ enemies' = s.enemies /\ towers' = s.towers /\ projectiles' = s.projectiles
  /\ nextId' = s.nextId /\ out' = s.out

\* ----------------------------------------------------------------- inputs
\* the points the player clicks: one on the route, the others beside it
ClickPoints == { <<400, 300>>, <<130, 380>>, <<130, 220>>, <<400, 450>> }
\* Math.random() in hundredths: one value per branch of the archetype roll
Rolls == {10, 30, 60}
\* the frame times the engine hands to update, in milliseconds
Deltas == {1000}
\* tower ids a command may name: those handed out so far and one that is not
TowerIds == { towers[i].id : i \in 1..Len(towers) } \cup {0}

\* the scene after the engine has booted it: init(), then create()
Booted(ys) == create(init(Constructed), ys)

\* ---------------------------------------------------------------- scripts
\* Scenes the program reaches by a fixed sequence of commands and frames,
\* computed with the handlers themselves; the behaviours start from them.
Clear(s) == [s EXCEPT !.out = NoOut]
Flat == [i \in 1..15 |-> Height \div 2]
ZigZag == [i \in 1..15 |-> IF i % 2 = 1 THEN 80 ELSE Height - 80]

\* the player arms a tower type and clicks at pt
Build(s, type, pt, dateNow) ==
  Clear(pointerdown(Clear(setTowerType(s, type)), pt[1], pt[2], dateNow))

\* n upgrades of a tower; the recursion halves n, which keeps its depth small
RECURSIVE Upgraded(_, _, _)
Upgraded(s, towerId, n) ==
  IF FindTower(s, towerId) = 0 \/ n = 0 THEN s
  ELSE IF n = 1 THEN Clear(upgradeTower(s, towerId))
  ELSE Upgraded(Upgraded(s, towerId, n \div 2), towerId, n - n \div 2)

\* the overlap callbacks of a world step, one pair after the other
RECURSIVE ResolveHits(_, _)
ResolveHits(s, pairs) ==
  IF pairs = {} THEN s
  ELSE LET c == CHOOSE c \in pairs : TRUE
       IN ResolveHits(handleHit(s, c[1], c[2]), pairs \ {c})

\* one frame of 1000 ms: world step, overlap callbacks, update
Frame(s, roll) ==
  LET s1 == Clear(worldStep(s, 1000))
  IN Clear(update(ResolveHits(s1, Overlaps(s1)), 1000, roll, Flat))

\* n frames of a wave with roll 60; a scene whose wave is complete stays as it
\* is.  The recursion halves n, which keeps its depth small.
RECURSIVE PlayFrames(_, _)
PlayFrames(s, n) ==
  IF ~s.waveInProgress \/ n = 0 THEN s
  ELSE IF n = 1 THEN Frame(s, 60)
  ELSE PlayFrames(PlayFrames(s, n \div 2), n - n \div 2)

\* a wave started and played to its end (no wave lasts 512 frames)
PlayWave(s) == PlayFrames(Clear(startWave(s)), 512)

\* n waves played to their end, or as many as the lives last
RECURSIVE PlayWaves(_, _)
PlayWaves(s, n) ==
  IF s.stats.lives <= 0 \/ n = 0 THEN s
  ELSE IF n = 1 THEN PlayWave(s)
  ELSE PlayWaves(PlayWaves(s, n \div 2), n - n \div 2)

\* a sniper tower beside the start of the route, the type still armed
Armed == Build(Booted(Flat), "sniper", <<130, 380>>, 1)
\* the same tower after fourteen upgrades: it kills what it hits
Sup == Upgraded(Armed, 1, 14)
\* a basic tower in the middle of its first wave
Skirmish == PlayFrames(Clear(startWave(Build(Booted(Flat), "basic", <<130, 380>>, 1))), 6)
\* two basic towers that reach only the last stretch of the route, and the
\* first enemy of the wave inside it
Gate ==
  PlayFrames(Clear(startWave(Build(Build(Booted(Flat), "basic", <<790, 448>>, 1),
                                   "basic", <<790, 152>>, 2))), 27)
\* two snipers and no gold left, the type still armed
Broke == Build(Armed, "sniper", <<130, 220>>, 2)
\* a basic tower out of reach of the route
Outpost == Build(Booted(Flat), "basic", <<400, 550>>, 1)
\* the first enemy of its first wave about to reach the core
Breach == PlayFrames(Clear(startWave(Outpost)), 27)
\* the same wave with one life left
Fallen == PlayFrames(Clear(startWave(Outpost)), 47)
\* a sniper beside the middle of the route, late in its first wave: it has
\* killed fifteen enemies, the last two are about to reach the core
LastStand ==
  PlayFrames(Clear(startWave(Build(Booted(Flat), "sniper", <<400, 450>>, 1))), 53)
\* the upgraded sniper late in wave 1, wave 30 and wave 31
Late1 == PlayFrames(Clear(startWave(Sup)), 27)
Late30 == PlayFrames(Clear(startWave(PlayWaves(Sup, 29))), 17)
Late31 == PlayFrames(Clear(startWave(PlayWaves(Sup, 30))), 267)
\* level 4, where GOLIATHs appear: the sniper, and a rapid and a basic tower
\* that reach the start of the route
Mixed ==
  Build(Build(PlayWaves(Sup, 3), "rapid", <<30, 380>>, 2), "basic", <<60, 220>>, 3)

\* the scenes a behaviour starts from
Setups ==
  { Booted(Flat), Booted(ZigZag), Armed, Broke, Sup, Breach, Skirmish,
    PlayWaves(Sup, 3), PlayWaves(Sup, 9), PlayWaves(Sup, 30),
    Late1, Late30, Late31, Mixed, Fallen, LastStand }

\* the environment when a behaviour begins
EnvInit ==
  /\ last = [op |-> "create"] /\ before = Scene
  /\ pc = "idle" /\ pending = {} /\ delta = 0
  /\ now = Max(1, Len(towers)) /\ ticks = 0 /\ cmds = 0

Init == (\E s \in Setups : SceneIs(s)) /\ EnvInit

\* ---------------------------------------------------------------- actions
Command(s, l) ==
  /\ pc = "idle" /\ cmds < MaxCmds
  /\ Becomes(s) /\ last' = l /\ before' = Scene /\ cmds' = cmds + 1
  /\ UNCHANGED <<pc, pending, delta, ticks>>

SetTowerType ==
  \E type \in TowerTypeIds \cup {NoType} :
    /\ Command(setTowerType(Scene, type), [op |-> "setTowerType", type |-> type])
    /\ UNCHANGED now

\* a click on empty ground (a click on a tower stops at the tower's handler);
\* Date.now() is the clock of the last call or a later one
Pointerdown ==
  \E pt \in ClickPoints, dateNow \in {now, now + 1} :
    /\ TowersAt(Scene, pt[1], pt[2]) = {}
    /\ Command(pointerdown(Scene, pt[1], pt[2], dateNow),
               [op |-> "pointerdown", x |-> pt[1], y |-> pt[2]])
    /\ now' = dateNow

TowerPointerdown ==
  \E i \in 1..Len(towers) :
    /\ Command(towerPointerdown(Scene, i), [op |-> "towerPointerdown", tower |-> i])
    /\ UNCHANGED now

UpgradeTower ==
  \E id \in TowerIds :
    /\ Command(upgradeTower(Scene, id), [op |-> "upgradeTower", id |-> id])
    /\ UNCHANGED now

UpdateTowerPriority ==
  \E id \in TowerIds, priority \in Priorities :
    /\ Command(updateTowerPriority(Scene, id, priority),
               [op |-> "updateTowerPriority", id |-> id, priority |-> priority])
    /\ UNCHANGED now

SetGameSpeed ==
  \E m \in SPEED_LEVELS :
    /\ Command(setGameSpeed(Scene, m), [op |-> "setGameSpeed", multiplier |-> m])
    /\ UNCHANGED now

\* the host's engage button is disabled at level 1 while no tower stands
StartWave ==
  /\ ~(stats.level = 1 /\ stats.towerCount = 0)
  /\ Command(startWave(Scene), [op |-> "startWave"])
  /\ UNCHANGED now

\* scene.restart(): the engine destroys the scene's objects, then init(), create()
Restart ==
  \E ys \in PathShapes :
    /\ Command(create(init(Scene), ys), [op |-> "restart"])
    /\ UNCHANGED now

\* a frame begins: the engine's world step
WorldStep ==
  \E d \in Deltas :
    /\ pc = "idle" /\ ticks < MaxTicks
    /\ LET s == worldStep(Scene, d)
       IN Becomes(s) /\ pending' = Overlaps(s)
    /\ pc' = "collide" /\ last' = [op |-> "worldStep"] /\ before' = Scene
    /\ delta' = d /\ ticks' = ticks + 1 /\ now' = now + d
    /\ UNCHANGED cmds

\* the engine runs the overlap callback of one pending pair
HandleHit ==
  \E c \in pending :
    /\ pc = "collide"
    /\ Becomes(handleHit(Scene, c[1], c[2]))
    /\ pending' = pending \ {c}
    /\ last' = [op |-> "handleHit", projectile |-> c[1], enemy |-> c[2]]
    /\ before' = Scene
    /\ UNCHANGED <<pc, delta, now, ticks, cmds>>

\* the frame ends with the scene's update
Update ==
  \E roll \in Rolls, ys \in PathShapes :
    /\ pc = "collide" /\ pending = {}
    /\ Becomes(update(Scene, delta, roll, ys))
    /\ pc' = "idle" /\ last' = [op |-> "update"] /\ before' = Scene
    /\ delta' = 0
    /\ UNCHANGED <<pending, now, ticks, cmds>>

Next ==
  \/ SetTowerType \/ Pointerdown \/ TowerPointerdown \/ UpgradeTower
  \/ UpdateTowerPriority \/ SetGameSpeed \/ StartWave \/ Restart
  \/ WorldStep \/ HandleHit \/ Update

Spec == Init /\ [][Next]_vars

\* the behaviours that start at the gate
SiegeInit == SceneIs(Gate) /\ EnvInit
SiegeSpec == SiegeInit /\ [][Next]_vars

\* ------------------------------------------------------------ level intel
\* getLevelIntel(level) and its collaborator, the text-generation service.
\* A JSON value is a type and, for an object, its (name, string) members.
JsonObject(members) == [type |-> "object", members |-> members]
JsonOther(type) == [type |-> type, members |-> {}]

\* The texts the service answers with in the model, and JSON.parse of each:
\* ok is false where JSON.parse throws a SyntaxError.
Texts ==
  { "", "Sector report: all clear", "{\"title\":\"Iron Dawn\",\"briefing\":\"Hold.\"",
    "{\"title\":\"Iron Dawn\",\"briefing\":\"Hold.\"}",
    " {\"title\":\"Iron Dawn\",\"briefing\":\"Hold.\"}\n",
    "{\"title\":\"Iron Dawn\"}", "{}", "null", "[]", "\"Iron Dawn\"" }

\* String.prototype.trim on the texts of the model
Trim(text) ==
  IF text = " {\"title\":\"Iron Dawn\",\"briefing\":\"Hold.\"}\n"
  THEN "{\"title\":\"Iron Dawn\",\"briefing\":\"Hold.\"}" ELSE text

JsonParse(text) ==
  CASE text = "{\"title\":\"Iron Dawn\",\"briefing\":\"Hold.\"}" ->
         [ok |-> TRUE, value |-> JsonObject({<<"title", "Iron Dawn">>, <<"briefing", "Hold.">>})]
    [] text = "{\"title\":\"Iron Dawn\"}" ->
         [ok |-> TRUE, value |-> JsonObject({<<"title", "Iron Dawn">>})]
    [] text = "{}" -> [ok |-> TRUE, value |-> JsonObject({})]
    [] text = "null" -> [ok |-> TRUE, value |-> JsonOther("null")]
    [] text = "[]" -> [ok |-> TRUE, value |-> JsonOther("array")]
    [] text = "\"Iron Dawn\"" -> [ok |-> TRUE, value |-> JsonOther("string")]
    [] OTHER -> [ok |-> FALSE, value |-> JsonOther("undefined")]

\* What the service does with a request: the client cannot be built (no API
\* key), the request is rejected, the response has no text, or it has one.
Responses ==
  { [kind |-> "unavailable", text |-> ""], [kind |-> "throws", text |-> ""],
    [kind |-> "no text", text |-> ""] }
    \cup { [kind |-> "text", text |-> text] : text \in Texts }

\* the value of the catch block
FallbackIntel(level) ==
  JsonObject({ <<"title", "Sector " \o ToString(level) \o " Breach">>,
               <<"briefing", "Enemy reinforcements detected. Maintain the perimeter and optimize turret array.">> })

\* the promise of getLevelIntel: everything happens inside the try block, so
\* it is never rejected
getLevelIntel(level, response) ==
  IF response.kind \in {"unavailable", "throws"}
  THEN [settled |-> "fulfilled", value |-> FallbackIntel(level)]
  ELSE LET data == JsonParse(Trim(response.text))
       IN IF data.ok
          THEN [settled |-> "fulfilled", value |-> data.value]
          ELSE [settled |-> "fulfilled", value |-> FallbackIntel(level)]

\* the levels getLevelIntel is asked about
IntelLevels == 1..32

\* a call of getLevelIntel, which has no access to the scene
GetLevelIntel ==
  \E level \in IntelLevels, response \in Responses :
    /\ last' = [op |-> "getLevelIntel", level |-> level, response |-> response,
                result |-> getLevelIntel(level, response)]
    /\ Becomes(Scene) /\ before' = Scene
    /\ UNCHANGED <<pc, pending, delta, now, ticks, cmds>>

IntelInit == SceneIs(Skirmish) /\ EnvInit
IntelNext == GetLevelIntel
IntelSpec == IntelInit /\ [][IntelNext]_vars

\* -------------------------------------------------------- spawn cadence
\* Waves under frames shorter than the spawn interval as well as longer ones:
\* the first wave from its start and in its middle, and the boss wave of
\* level 10 (two enemies) from its start.
ShortDeltas == {400}

ShortStep ==
  \E d \in ShortDeltas :
    /\ pc = "idle" /\ ticks < MaxTicks
    /\ LET s == worldStep(Scene, d)
       IN Becomes(s) /\ pending' = Overlaps(s)
    /\ pc' = "collide" /\ last' = [op |-> "worldStep"] /\ before' = Scene
    /\ delta' = d /\ ticks' = ticks + 1 /\ now' = now + d
    /\ UNCHANGED cmds

CadenceSetups == { Outpost, Clear(startWave(Outpost)), Skirmish, PlayWaves(Sup, 9) }
CadenceInit == (\E s \in CadenceSetups : SceneIs(s)) /\ EnvInit
CadenceNext ==
  \/ SetGameSpeed \/ StartWave
  \/ ShortStep \/ WorldStep \/ HandleHit \/ Update
CadenceSpec == CadenceInit /\ [][CadenceNext]_vars

\* ------------------------------------------------------- waves to the end
\* Whole waves, frame after frame, for as long as a wave is in progress: the
\* first wave with a tower that never fires (from its start, and with one
\* life left), the first wave with a tower that fires, and the boss waves of
\* levels 10 and 30 with a tower that kills; each at every game speed, set
\* before the behaviour begins.
MaxFrames == 80

LiveSetups ==
  { Clear(startWave(Outpost)), Fallen, Skirmish,
    Clear(startWave(PlayWaves(Sup, 9))), Late30 }

LiveStep ==
  \E d \in Deltas :
    /\ pc = "idle" /\ waveInProgress /\ ticks < MaxFrames
    /\ LET s == worldStep(Scene, d)
       IN Becomes(s) /\ pending' = Overlaps(s)
    /\ pc' = "collide" /\ last' = [op |-> "worldStep"] /\ before' = Scene
    /\ delta' = d /\ ticks' = ticks + 1 /\ now' = now + d
    /\ UNCHANGED cmds

LiveInit ==
  /\ \E s \in LiveSetups, m \in SPEED_LEVELS : SceneIs(Clear(setGameSpeed(s, m)))
  /\ EnvInit
LiveNext == LiveStep \/ HandleHit \/ Update
\* the overlap callbacks of the frame have run and update is due: the
\* condition under which Update, and no other step, can be taken
UpdateDue == pc = "collide" /\ pending = {}
\* the engine keeps calling the scene: frames follow one another, and in each
\* the overlap callbacks run and then update (weak fairness of Update, with
\* its enabling condition written out: the scene does not stay at UpdateDue)
LiveSpec ==
  /\ LiveInit /\ [][LiveNext]_vars
  /\ WF_vars(LiveStep) /\ WF_vars(HandleHit) /\ []<>(~UpdateDue)

\* --------------------------------------------------------- archetype roll
\* spawnEnemy's choice of archetype as a function of the level and of the
\* value Math.random() returns, over every level a game passes through and
\* rolls in hundredths of [0, 1): the ends, both thresholds and the values
\* next to them.
RollLevels == 1..32
AllRolls == {0, 10, 24, 25, 26, 30, 44, 45, 46, 60, 99}

SpawnRoll ==
  \E level \in RollLevels, roll \in AllRolls :
    /\ last' = [op |-> "spawnRoll", level |-> level, roll |-> roll,
                archetype |-> RollArchetype(level, roll)]
    /\ Becomes(Scene) /\ before' = Scene
    /\ UNCHANGED <<pc, pending, delta, now, ticks, cmds>>

RollInit == SceneIs(Skirmish) /\ EnvInit
RollNext == SpawnRoll
RollSpec == RollInit /\ [][RollNext]_vars

\* ----------------------------------------------------------------- claims
\* a click that reaches placeTower: a tower type is armed
Places == last.op = "pointerdown" /\ before.currentTowerType # NoType

\* C1: between two restarts lives never increases: after every step that is
\* not a restart (a frame's world step, an overlap callback, update, or any
\* command) lives is less than or equal to its value before the step.
C1_LivesNeverIncrease ==
  [][last'.op # "restart" => stats'.lives <= stats.lives]_vars

\* an update in which an enemy reached the core and took a life
C1_Witness == last.op = "update" /\ stats.lives < before.stats.lives

\* C2: gold is never negative, and no handler other than a placement (or a
\* restart, which sets gold to its start value) lowers it.
C2_GoldNonNegative ==
  /\ stats.gold >= 0
  /\ last.op \notin {"pointerdown", "restart", "create"}
       => stats.gold >= before.stats.gold

\* a placement that spent the last gold
C2_Witness ==
  last.op = "pointerdown" /\ before.stats.gold > 0 /\ stats.gold = 0
  /\ Len(towers) = Len(before.towers) + 1

\* C3: the level stays between 1 and 31, whatever startWave commands and
\* frames there are, startWave at level 31 included.
C3_LevelInRange == 1 <= stats.level /\ stats.level <= 31

\* C4: placeTower with an armed type that costs more than the gold at hand
\* leaves gold, towerCount and the towers as they are, emits no stats update
\* and gives the rejection cue (the camera shake).
C4_RejectsUnaffordable ==
  (Places /\ TOWERS[before.currentTowerType].cost > before.stats.gold)
    => /\ stats.gold = before.stats.gold
       /\ stats.towerCount = before.stats.towerCount
       /\ towers = before.towers
       /\ out.statsUpdates = <<>>
       /\ out.cue = "shake"

\* a click with the sniper armed and less gold than it costs
C4_Witness ==
  /\ last.op = "pointerdown" /\ before.currentTowerType = "sniper"
  /\ before.stats.gold < TOWERS.sniper.cost
  /\ ~checkPathProximity(before, last.x, last.y)
  /\ out.cue = "shake"

\* C5: placeTower at a point closer than 35 to a sample of the route leaves
\* gold, towerCount and the towers as they are, also when the gold covers the
\* cost.
C5_RejectsOnPath ==
  (Places /\ checkPathProximity(before, last.x, last.y))
    => /\ stats.gold = before.stats.gold
       /\ stats.towerCount = before.stats.towerCount
       /\ towers = before.towers

\* a click on the route with the type armed and the gold to pay for it
C5_Witness ==
  /\ last.op = "pointerdown" /\ before.currentTowerType # NoType
  /\ before.stats.gold >= TOWERS[before.currentTowerType].cost
  /\ checkPathProximity(before, last.x, last.y)
  /\ out.cue = "flash"

\* an overlap callback that got past its guards: both objects were active
Hit ==
  /\ last.op = "handleHit"
  /\ IsActiveProjectile(before, last.projectile)
  /\ IsActiveEnemy(before, last.enemy)

\* C6: a hit that brings the enemy's hp to 0 or below adds
\* floor((40 + level*8) * g) to gold and 800*level*s to score, with the level
\* at the time of the hit and (g, s) = (2.5, 2) for GOLIATH, (10, 10) for
\* BOSS, (1, 1) otherwise, and both grow; a hit that leaves hp above 0
\* changes neither.
C6_KillRewards ==
  Hit =>
    LET enemy == before.enemies[EnemyIndex(before, last.enemy)]
        level == before.stats.level
        hp == enemy.hp - out.hits[1].damage
        g10 == CASE enemy.archetype = "GOLIATH" -> 25
                 [] enemy.archetype = "BOSS" -> 100
                 [] OTHER -> 10
        sm == CASE enemy.archetype = "GOLIATH" -> 2
                [] enemy.archetype = "BOSS" -> 10
                [] OTHER -> 1
    IN IF hp <= 0
       THEN /\ ~IsActiveEnemy(Scene, last.enemy)
            /\ stats.gold = before.stats.gold + ((40 + level * 8) * g10) \div 10
            /\ stats.score = before.stats.score + 800 * level * sm
            /\ stats.gold > before.stats.gold
            /\ stats.score > before.stats.score
       ELSE /\ IsActiveEnemy(Scene, last.enemy)
            /\ enemies[EnemyIndex(Scene, last.enemy)].hp = hp
            /\ stats.gold = before.stats.gold
            /\ stats.score = before.stats.score

\* a GOLIATH killed by a hit
C6_Witness ==
  /\ Hit /\ ~IsActiveEnemy(Scene, last.enemy)
  /\ before.enemies[EnemyIndex(before, last.enemy)].archetype = "GOLIATH"
  /\ stats.gold = before.stats.gold + 180

\* C7: a tower of level 1 + N has the damage of N applications of
\* x -> floor(x * 1.5) to the base damage of its type and the fire rate of N
\* applications of x -> floor(x * 0.85) to the base fire rate, and every
\* upgradeTower call that names a tower raises that tower's level by one.
C7_UpgradeChain ==
  /\ \A i \in 1..Len(towers) :
       LET tower == towers[i]
           base == TOWERS[tower.config.id]
           n == tower.level - 1
           damage[k \in 0..n] ==
             IF k = 0 THEN base.damage ELSE (damage[k - 1] * 3) \div 2
           fireRate[k \in 0..n] ==
             IF k = 0 THEN base.fireRate ELSE (fireRate[k - 1] * 17) \div 20
       IN /\ n >= 0
          /\ tower.config.damage = damage[n]
          /\ tower.config.fireRate = fireRate[n]
  /\ (last.op = "upgradeTower" /\ FindTower(before, last.id) # 0)
       => \A i \in 1..Len(towers) :
            towers[i].level = before.towers[i].level
                              + (IF i = FindTower(before, last.id) THEN 1 ELSE 0)

\* the sixteenth level of a sniper: 40 * 1.5^15 is above 17515, the chain of
\* truncations gives 17434
C7_Witness ==
  /\ last.op = "upgradeTower" /\ FindTower(before, last.id) # 0
  /\ \E i \in 1..Len(towers) :
       /\ towers[i].level = 16 /\ before.towers[i].level = 15
       /\ towers[i].config.damage = 17434

\* C8: completeLevel at level 30 makes the level 31 and signals the win (a
\* stats update with level 31 and the terminal callback); below level 30 it
\* leaves a route of min(3 + floor(newLevel/2.5), 15) segments; in both cases
\* the wave flags are cleared and gold grows by 350 + newLevel*60.  update
\* calls completeLevel exactly when a wave is in progress with nothing left
\* to spawn and no enemy alive.
C8_CompleteLevel ==
  (/\ last.op = "update" /\ before.waveInProgress
   /\ before.enemiesRemaining = 0 /\ Len(before.enemies) = 0
   /\ before.stats.level <= 30)
    => /\ stats.level = before.stats.level + 1
       /\ ~waveInProgress /\ ~stats.waveActive
       /\ stats.gold = before.stats.gold + 350 + stats.level * 60
       /\ IF before.stats.level = 30
          THEN /\ stats.level = 31
               /\ out.gameOver = 1
               /\ \E k \in 1..Len(out.statsUpdates) : out.statsUpdates[k].level = 31
          ELSE /\ Len(path.pts) = 1 + Min(3 + (stats.level * 2) \div 5, 15)
               /\ \E ys \in PathShapes :
                    \A k \in 1..(Len(path.pts) - 2) : path.pts[k + 1].y = ys[k]
               /\ out.gameOver = 0

\* wave 30 completed
C8_Witness ==
  /\ last.op = "update" /\ before.waveInProgress /\ before.stats.level = 30
  /\ stats.level = 31 /\ out.gameOver = 1 /\ ~waveInProgress

\* C9: a projectile whose target is no longer active is gone after the next
\* update, and no overlap callback of such a projectile changes an enemy's hp.
C9_StaleProjectileHarmless ==
  /\ last.op = "update"
       => \A i \in 1..Len(projectiles) :
            \/ IsActiveEnemy(before, projectiles[i].target)
            \/ ~IsActiveProjectile(before, projectiles[i].id)
  /\ Hit => IsActiveEnemy(before,
               before.projectiles[ProjectileIndex(before, last.projectile)].target)

\* C10: for every tower and every priority, when some active enemy is within
\* the tower's range getPriorityTarget returns such an enemy, one of maximum
\* progress for FIRST, of maximum hp for STRONGEST, of minimum hp for WEAKEST
\* and of minimum distance for CLOSEST and for any other value.
C10_PriorityTarget ==
  \A i \in 1..Len(towers), priority \in Priorities \cup {"NEAREST"} :
    LET tower == [towers[i] EXCEPT !.targetingPriority = priority]
        Dist2(e) == (tower.x - e.x) * (tower.x - e.x) + (tower.y - e.y) * (tower.y - e.y)
        inRange == { j \in 1..Len(enemies) :
                       Dist2(enemies[j]) <= tower.config.range * tower.config.range }
        target == getPriorityTarget(Scene, tower)
    IN inRange # {} =>
         \E j \in inRange :
           /\ target = enemies[j]
           /\ \A k \in inRange :
                CASE priority = "FIRST" -> enemies[k].t <= target.t
                  [] priority = "STRONGEST" -> enemies[k].hp <= target.hp
                  [] priority = "WEAKEST" -> enemies[k].hp >= target.hp
                  [] OTHER -> Dist2(enemies[k]) >= Dist2(target)

\* an update in which a tower fired with two enemies in range that differ in
\* hp, in progress and in distance
C10_Witness ==
  /\ last.op = "update"
  /\ \E i \in 1..Len(towers), j, k \in 1..Len(enemies) :
       /\ InRange(towers[i], enemies[j]) /\ InRange(towers[i], enemies[k])
       /\ enemies[j].hp < enemies[k].hp /\ enemies[j].t > enemies[k].t
       /\ DistSq(towers[i].x, towers[i].y, enemies[j].x, enemies[j].y)
            # DistSq(towers[i].x, towers[i].y, enemies[k].x, enemies[k].y)
       /\ towers[i].nextFire = scaledTime + towers[i].config.fireRate
       /\ \E p \in 1..Len(projectiles) : projectiles[p].target = enemies[j].id

\* the enemies spawned by the last update (0 or 1)
Spawned == before.enemiesRemaining - enemiesRemaining

\* the positions of the active enemies when the towers of the last update
\* looked for a target: those of the enemies before it, and the start of the
\* route when it spawned one
TargetsAtFire ==
  { <<before.enemies[j].x, before.enemies[j].y>> : j \in 1..Len(before.enemies) }
    \cup (IF Spawned > 0
          THEN { <<getPoint(before.path, 0).x, getPoint(before.path, 0).y>> }
          ELSE {})

\* tower i was ready in the last update: simulated time was past its nextFire
ReadyAtFire(i) == scaledTime > before.towers[i].nextFire

\* some active enemy was within the range of tower i at that moment
InRangeAtFire(i) ==
  \E c \in TargetsAtFire :
    (before.towers[i].x - c[1]) * (before.towers[i].x - c[1])
      + (before.towers[i].y - c[2]) * (before.towers[i].y - c[2])
        <= before.towers[i].config.range * before.towers[i].config.range

\* C11: in a tick where a tower is ready but no active enemy is within its
\* range the tower creates no projectile and its nextFire is unchanged (the
\* projectiles created in the tick are as many as the towers whose nextFire
\* changed), and a ready tower with an enemy in range fires in that tick: its
\* nextFire becomes the simulated time plus its fire rate.
C11_NoTargetNoFire ==
  last.op = "update" =>
    /\ Len(towers) = Len(before.towers)
    /\ \A i \in 1..Len(towers) :
         IF ReadyAtFire(i) /\ InRangeAtFire(i)
         THEN towers[i].nextFire = scaledTime + towers[i].config.fireRate
         ELSE towers[i].nextFire = before.towers[i].nextFire
    /\ nextId - before.nextId - Spawned
         = Cardinality({ i \in 1..Len(towers) :
                           towers[i].nextFire # before.towers[i].nextFire })

\* a tick with enemies on the route, none of them within the range of a tower
\* that is ready
C11_Witness ==
  /\ last.op = "update" /\ Len(before.enemies) > 0
  /\ \E i \in 1..Len(towers) :
       /\ ReadyAtFire(i) /\ ~InRangeAtFire(i)
       /\ towers[i].nextFire = before.towers[i].nextFire
       /\ nextId = before.nextId + Spawned

\* C12: the damage a hit subtracts from the enemy's hp is the projectile's
\* damage times 0.5 when the enemy is GOLIATH or BOSS and the tower type is
\* "rapid", times 1.25 when the enemy is GOLIATH or BOSS and the type is
\* "sniper", and times 1 in every other case, and the hit is reported as
\* resisted, boosted or normal accordingly (hp and damage in quarters).
C12_HitDamage ==
  Hit =>
    LET p == before.projectiles[ProjectileIndex(before, last.projectile)]
        e == before.enemies[EnemyIndex(before, last.enemy)]
        heavy == e.archetype = "GOLIATH" \/ e.archetype = "BOSS"
        factor4 == IF heavy /\ p.towerId = "rapid" THEN 2
                   ELSE IF heavy /\ p.towerId = "sniper" THEN 5 ELSE 4
    IN /\ Len(out.hits) = 1
       /\ out.hits[1].damage = p.damage * factor4
       /\ out.hits[1].kind = (IF factor4 = 2 THEN "resisted"
                              ELSE IF factor4 = 5 THEN "critical" ELSE "normal")
       /\ IF IsActiveEnemy(Scene, last.enemy)
          THEN /\ enemies[EnemyIndex(Scene, last.enemy)].hp = e.hp - p.damage * factor4
               /\ e.hp > p.damage * factor4
          ELSE e.hp <= p.damage * factor4

\* a GOLIATH that a rapid tower's projectile hit for half its damage
C12_Witness ==
  /\ Hit /\ IsActiveEnemy(Scene, last.enemy)
  /\ before.enemies[EnemyIndex(before, last.enemy)].archetype = "GOLIATH"
  /\ before.projectiles[ProjectileIndex(before, last.projectile)].towerId = "rapid"
  /\ out.hits[1].kind = "resisted"
  /\ enemies[EnemyIndex(Scene, last.enemy)].hp
       = before.enemies[EnemyIndex(before, last.enemy)].hp - 2 * TOWERS.rapid.damage

\* C13: startWave with no wave in progress at level L sets enemiesRemaining
\* to max(1, floor(L/5)) when L is a multiple of 10 and to 20 + 8*L otherwise
\* (28 at level 1, 2 at level 10), sets waveInProgress and stats.waveActive,
\* and emits one stats update, which carries the new stats.
C13_StartWave ==
  (last.op = "startWave" /\ ~before.waveInProgress) =>
    LET L == before.stats.level
    IN /\ enemiesRemaining = (IF L % 10 = 0
                              THEN (IF L \div 5 > 1 THEN L \div 5 ELSE 1)
                              ELSE 20 + 8 * L)
       /\ L = 1 => enemiesRemaining = 28
       /\ L = 10 => enemiesRemaining = 2
       /\ waveInProgress /\ stats.waveActive
       /\ stats = [before.stats EXCEPT !.waveActive = TRUE]
       /\ out.statsUpdates = <<stats>>

\* a wave started at the boss level 10
C13_Witness ==
  /\ last.op = "startWave" /\ ~before.waveInProgress /\ before.stats.level = 10
  /\ waveInProgress /\ enemiesRemaining = 2

\* C14: startWave while a wave is in progress changes nothing:
\* enemiesRemaining, nextEnemyTime, waveInProgress, the stats and the enemies
\* are as before, and no stats update is emitted.
C14_StartWaveNoOp ==
  (last.op = "startWave" /\ before.waveInProgress) =>
    /\ enemiesRemaining = before.enemiesRemaining
    /\ nextEnemyTime = before.nextEnemyTime
    /\ waveInProgress
    /\ stats = before.stats
    /\ enemies = before.enemies
    /\ out.statsUpdates = <<>>

\* startWave in the middle of a wave: enemies on the route and more to spawn
C14_Witness ==
  /\ last.op = "startWave" /\ before.waveInProgress
  /\ Len(enemies) > 0 /\ enemiesRemaining > 0
  /\ enemiesRemaining < 20 + 8 * stats.level

\* tower i has enemy j within its range in the current state
Reaches(i, j) ==
  (towers[i].x - enemies[j].x) * (towers[i].x - enemies[j].x)
    + (towers[i].y - enemies[j].y) * (towers[i].y - enemies[j].y)
      <= towers[i].config.range * towers[i].config.range

\* C15: within a tick the steps run in the order spawn, enemy movement,
\* tower firing, projectiles, wave completion.  So a ready tower that has an
\* enemy within range at the positions the tick has moved the enemies to has
\* fired in that tick, and no tick ends with a wave in progress that has
\* nothing left to spawn and no enemy alive (the completion check, made
\* last, would have closed it).
C15_TickOrder ==
  last.op = "update" =>
    /\ \A i \in 1..Len(towers) :
         (ReadyAtFire(i) /\ \E j \in 1..Len(enemies) : Reaches(i, j))
           => towers[i].nextFire = scaledTime + towers[i].config.fireRate
    /\ ~(waveInProgress /\ enemiesRemaining = 0 /\ Len(enemies) = 0)

\* C16: the level never decreases, and it increases, or the route is
\* regenerated, only by an update that found a wave in progress with nothing
\* left to spawn and no enemy active (and that leaves no enemy): never while
\* an enemy is alive or enemies of the wave remain to be spawned.
C16_CompleteOnlyWhenClear ==
  last.op \notin {"restart", "create"} =>
    /\ stats.level >= before.stats.level
    /\ (stats.level # before.stats.level \/ path # before.path)
         => /\ last.op = "update"
            /\ stats.level = before.stats.level + 1
            /\ before.waveInProgress
            /\ before.enemiesRemaining = 0 /\ enemiesRemaining = 0
            /\ Len(before.enemies) = 0 /\ Len(enemies) = 0

\* a completed wave: the level went up and the route changed
C16_Witness ==
  /\ last.op = "update" /\ stats.level = before.stats.level + 1
  /\ path # before.path /\ before.waveInProgress /\ ~waveInProgress
  /\ Len(before.enemies) = 0

\* the identities of a sequence of enemies, and the elements of a log
EnemyIds(es) == { es[j].id : j \in 1..Len(es) }
Logged(log) == { log[k] : k \in 1..Len(log) }

\* C17: every enemy has at most one terminal event, and exactly one when it
\* is destroyed: it reaches the core, which costs one life and pays nothing,
\* or it is killed, which pays one reward and costs no life.  Step by step:
\* the enemies that took a life or paid a reward in a handler were active
\* before it (or spawned by it), are gone after it, appear once in the two logs together, and
\* are exactly the enemies the handler removed; lives falls by the number of
\* leaks and gold grows only with a reward; and an enemy that is gone never
\* comes back (identities are fresh and distinct), so it has no second event.
C17_OneTerminalEvent ==
  last.op \notin {"restart", "create"} =>
    LET was == EnemyIds(before.enemies)
                 \cup (IF last.op = "update" /\ Spawned > 0 THEN {before.nextId} ELSE {})
        is == EnemyIds(enemies)
        events == out.leaks \o out.rewards
    IN /\ Cardinality(is) = Len(enemies)
       /\ \A id \in is : id < nextId /\ (id \in was \/ id >= before.nextId)
       /\ Cardinality(Logged(events)) = Len(events)
       /\ Logged(events) = was \ is
       /\ stats.lives = before.stats.lives - Len(out.leaks)
       /\ Len(out.leaks) > 0
            => /\ last.op = "update" /\ out.rewards = <<>>
               /\ stats.gold = before.stats.gold /\ stats.score = before.stats.score
       /\ Len(out.rewards) > 0
            => /\ last.op = "handleHit" /\ out.rewards = <<last.enemy>>
               /\ stats.gold > before.stats.gold /\ stats.score > before.stats.score
       /\ (last.op = "handleHit" /\ out.rewards = <<>>)
            => stats.gold = before.stats.gold /\ stats.score = before.stats.score

\* an enemy reached the core while the enemy behind it stayed on the route
C17_Witness ==
  /\ last.op = "update" /\ Len(out.leaks) = 1 /\ Len(enemies) > 0
  /\ out.leaks[1] \in EnemyIds(before.enemies) \ EnemyIds(enemies)
  /\ stats.lives = before.stats.lives - 1

\* C18: every enemy whose progress reaches 1 in a tick is destroyed in that
\* tick (none with t >= 1 is left after an update) and takes exactly one
\* life, and onGameOver is called in that tick once for every decrement that
\* leaves lives at or below 0, and not otherwise.
C18_LeakCostsOneLife ==
  last.op = "update" =>
    /\ \A j \in 1..Len(enemies) : enemies[j].t < TUnit
    /\ Logged(out.leaks) \cap EnemyIds(enemies) = {}
    /\ stats.lives = before.stats.lives - Len(out.leaks)
    /\ Len(out.leaks) > 0 =>
         /\ out.gameOver
              = Cardinality({ k \in 1..Len(out.leaks) : before.stats.lives - k <= 0 })
         /\ out.gameOver > 0 <=> stats.lives <= 0

\* the enemy that takes the last life: the game is over in that tick
C18_Witness ==
  /\ last.op = "update" /\ Len(out.leaks) = 1
  /\ before.stats.lives = 1 /\ stats.lives = 0 /\ out.gameOver = 1

\* C19: once lives is at or below 0, or the level is above 30, no step other
\* than a restart (no tick, no overlap callback, no command) changes lives,
\* level, gold, score or towerCount.
C19_TerminalIsFinal ==
  [][((stats.lives <= 0 \/ stats.level > 30) /\ last'.op # "restart")
       => /\ stats'.lives = stats.lives
          /\ stats'.level = stats.level
          /\ stats'.gold = stats.gold
          /\ stats'.score = stats.score
          /\ stats'.towerCount = stats.towerCount]_vars

\* C20: a handler that has changed gold, lives, level, score, towerCount,
\* waveActive or gameSpeed has called onStatsUpdate, and the last snapshot it
\* gave equals the stats it left.
C20_StatsPushed ==
  stats # before.stats
    => /\ Len(out.statsUpdates) > 0
       /\ out.statsUpdates[Len(out.statsUpdates)] = stats

\* C21: getLevelIntel(level) is always fulfilled, never rejected, with a
\* value that has a title and a briefing; when the service is unavailable,
\* throws, or answers with text that is not valid JSON the value is the
\* fallback, titled "Sector <level> Breach" with the fixed briefing; and the
\* scene is as it was.
C21_IntelAlwaysAnswers ==
  last.op = "getLevelIntel" =>
    LET value == last.result.value
        names == { m[1] : m \in value.members }
    IN /\ last.result.settled = "fulfilled"
       /\ value.type = "object"
       /\ {"title", "briefing"} \subseteq names
       /\ (\/ last.response.kind \in {"unavailable", "throws", "no text"}
           \/ ~JsonParse(Trim(last.response.text)).ok)
            => value.members
                 = { <<"title", "Sector " \o ToString(last.level) \o " Breach">>,
                     <<"briefing", "Enemy reinforcements detected. Maintain the perimeter and optimize turret array.">> }
       /\ Scene = before

\* C22: upgradeTower(id) on an existing tower raises the level of the first
\* tower with that id by one, makes its damage floor(damage * 1.5) and its
\* fire rate floor(fireRate * 0.85), selects it, and changes nothing else:
\* not the stats (gold, lives, score, level, towerCount), whatever the gold,
\* not any other tower, not any other field of the tower, and not the tower
\* types later placements copy; with an id no tower has it changes nothing.
C22_UpgradeOnlyTheTower ==
  /\ templates = TOWERS
  /\ last.op = "upgradeTower" =>
       LET matches == { j \in 1..Len(before.towers) : before.towers[j].id = last.id }
       IN /\ stats = before.stats
          /\ Len(towers) = Len(before.towers)
          /\ currentTowerType = before.currentTowerType
          /\ enemies = before.enemies /\ projectiles = before.projectiles
          /\ IF matches = {}
             THEN /\ towers = before.towers
                  /\ selectedTowerObject = before.selectedTowerObject
                  /\ out = NoOut
             ELSE LET i == CHOOSE j \in matches : \A k \in matches : j <= k
                      old == before.towers[i]
                  IN /\ \A j \in 1..Len(towers) : j # i => towers[j] = before.towers[j]
                     /\ towers[i] =
                          [old EXCEPT !.level = old.level + 1,
                                      !.config.damage = (old.config.damage * 3) \div 2,
                                      !.config.fireRate = (old.config.fireRate * 17) \div 20]
                     /\ selectedTowerObject = i

\* an upgrade with no gold at all, beside a tower of the same type that
\* keeps the values of the type
C22_Witness ==
  /\ last.op = "upgradeTower" /\ before.stats.gold = 0 /\ stats.gold = 0
  /\ Len(towers) = 2
  /\ \E i, j \in 1..2 :
       /\ towers[i].level = 2 /\ before.towers[i].level = 1
       /\ towers[i].config.damage = 60
       /\ towers[j].level = 1 /\ towers[j].config = TOWERS.sniper

\* C23: when several enemies in range tie on the key of the priority (equal
\* t for FIRST, equal hp for STRONGEST and WEAKEST, equal distance for
\* CLOSEST), getPriorityTarget returns the one of them that comes first in
\* the order of the enemy collection.
C23_TieGoesToFirst ==
  \A i \in 1..Len(towers), priority \in Priorities :
    LET tower == [towers[i] EXCEPT !.targetingPriority = priority]
        Dist2(e) == (tower.x - e.x) * (tower.x - e.x) + (tower.y - e.y) * (tower.y - e.y)
        inRange == { j \in 1..Len(enemies) :
                       Dist2(enemies[j]) <= tower.config.range * tower.config.range }
        Key(e) == CASE priority = "FIRST" -> e.t
                    [] priority = "STRONGEST" -> e.hp
                    [] priority = "WEAKEST" -> 0 - e.hp
                    [] OTHER -> 0 - Dist2(e)
        best == { j \in inRange : \A k \in inRange : Key(enemies[k]) <= Key(enemies[j]) }
    IN inRange # {} =>
         getPriorityTarget(Scene, tower)
           = enemies[CHOOSE j \in best : \A k \in best : j <= k]

\* C24: a tick in which a stat changes calls onStatsUpdate exactly once, also
\* when several enemies reach the core in it; a tick in which no stat changes
\* does not call it.
C24_OneSnapshotPerTick ==
  last.op = "update" =>
    Len(out.statsUpdates) = (IF stats # before.stats THEN 1 ELSE 0)

\* C25: an overlap callback reduces the hp of an enemy only when that enemy is
\* the target of the projectile, also when the projectile overlaps another
\* enemy on its way.
C25_HitsOnlyItsTarget ==
  Hit => before.projectiles[ProjectileIndex(before, last.projectile)].target = last.enemy

\* C26: an overlap callback whose projectile or enemy is no longer active
\* changes nothing and reports nothing; every other one applies one hit and
\* destroys the projectile, whether or not the enemy dies. An object's
\* identity is never given to a later object, so a projectile hits at most
\* once, and an enemy destroyed earlier in the pass takes no damage and
\* gives no reward.
C26_HitGuard ==
  /\ \A i \in 1..Len(projectiles) : projectiles[i].id < nextId
  /\ \A j \in 1..Len(enemies) : enemies[j].id < nextId
  /\ last.op = "handleHit" =>
       IF Hit
       THEN /\ ~IsActiveProjectile(Scene, last.projectile)
            /\ Len(projectiles) = Len(before.projectiles) - 1
            /\ Len(out.hits) = 1
            /\ out.hits[1].projectile = last.projectile
            /\ out.hits[1].enemy = last.enemy
            /\ Len(out.rewards) <= 1
            /\ nextId = before.nextId
       ELSE /\ Scene = before
            /\ out = NoOut

\* the callback of a pair whose enemy was killed by another projectile
\* earlier in the pass, the projectile still being active
C26_Witness ==
  /\ last.op = "handleHit"
  /\ IsActiveProjectile(before, last.projectile)
  /\ ~IsActiveEnemy(before, last.enemy)
  /\ IsActiveProjectile(Scene, last.projectile)

\* C27: removing an entity during a pass of update does not disturb the
\* pass: every enemy active when the tick begins is advanced exactly once by
\* speed * simDelta (and is removed exactly when that brings it to the core),
\* and every projectile is processed exactly once: none is left whose target
\* is gone, and each one left is aimed at the place of its target.
C27_PassesVisitAll ==
  last.op = "update" =>
    LET scaledDelta == scaledTime - before.scaledTime
    IN /\ \A j \in 1..Len(before.enemies) :
            LET e == before.enemies[j]
                t == e.t + e.speed * scaledDelta
            IN IF t >= TUnit
               THEN ~IsActiveEnemy(Scene, e.id) /\ e.id \in Logged(out.leaks)
               ELSE /\ IsActiveEnemy(Scene, e.id)
                    /\ enemies[EnemyIndex(Scene, e.id)].t = t
       /\ \A i \in 1..Len(projectiles) :
            LET p == projectiles[i]
            IN /\ IsActiveEnemy(Scene, p.target)
               /\ p.ax = enemies[EnemyIndex(Scene, p.target)].x
               /\ p.ay = enemies[EnemyIndex(Scene, p.target)].y

\* C28: for every value of the roll the archetype of a spawned enemy respects
\* the level gates: it is BOSS exactly on the levels divisible by 10; below
\* level 4 it is never GOLIATH; below level 2 it is always SENTINEL; from
\* level 4 on (boss levels apart) it is GOLIATH iff roll < 0.25, SCOUT iff
\* 0.25 <= roll < 0.45, and SENTINEL otherwise.
C28_ArchetypeGates ==
  last.op = "spawnRoll" =>
    LET level == last.level
        roll == last.roll
        archetype == last.archetype
    IN /\ archetype = "BOSS" <=> level % 10 = 0
       /\ level < 4 => archetype # "GOLIATH"
       /\ level < 2 => archetype = "SENTINEL"
       /\ (level >= 4 /\ level % 10 # 0) =>
            /\ archetype = "GOLIATH" <=> roll < 25
            /\ archetype = "SCOUT" <=> (25 <= roll /\ roll < 45)
            /\ archetype = "SENTINEL" <=> roll >= 45

\* a roll of exactly 0.25 at level 4: a SCOUT
C28_Witness ==
  /\ last.op = "spawnRoll" /\ last.level = 4 /\ last.roll = 25
  /\ last.archetype = "SCOUT"

\* the enemies an update has brought in: present or at the core after it,
\* and not present before it
Newcomers == (EnemyIds(enemies) \cup Logged(out.leaks)) \ EnemyIds(before.enemies)

\* C29: an update spawns exactly when a wave is in progress with
\* enemiesRemaining > 0 and simTime > nextEnemyTime, and then spawns one
\* enemy however large the delta, takes one from enemiesRemaining and sets
\* nextEnemyTime to simTime + 1200 / (1 + 0.4 * level) (whole milliseconds);
\* enemiesRemaining is never negative; nothing but an accepted startWave
\* (to the wave's count) and a restart sets it otherwise, and a wave ends
\* only with enemiesRemaining at 0, so a wave spawns the count startWave set.
C29_SpawnCadence ==
  /\ enemiesRemaining >= 0
  /\ last.op = "update" =>
       LET due == /\ before.waveInProgress /\ before.enemiesRemaining > 0
                  /\ scaledTime > before.nextEnemyTime
           L == before.stats.level
           gap == nextEnemyTime - scaledTime
       IN /\ Spawned = (IF due THEN 1 ELSE 0)
          /\ Cardinality(Newcomers) = Spawned
          /\ due => gap * (5 + 2 * L) <= 6000 /\ 6000 < (gap + 1) * (5 + 2 * L)
          /\ ~due => nextEnemyTime = before.nextEnemyTime
  /\ (last.op # "update" /\ enemiesRemaining # before.enemiesRemaining) =>
       \/ /\ last.op = "startWave" /\ ~before.waveInProgress
          /\ enemiesRemaining = WaveSize(before.stats.level)
       \/ last.op = "restart" /\ enemiesRemaining = 0
  /\ (last.op = "startWave" /\ before.waveInProgress) =>
       enemiesRemaining = before.enemiesRemaining
  /\ (before.waveInProgress /\ ~waveInProgress) =>
       \/ last.op = "restart"
       \/ last.op = "update" /\ before.enemiesRemaining = 0

\* an update in a wave with enemies left to spawn that spawns none, its
\* simTime not being past nextEnemyTime
C29_Witness ==
  /\ last.op = "update" /\ before.waveInProgress /\ before.enemiesRemaining > 0
  /\ scaledTime <= before.nextEnemyTime
  /\ Spawned = 0 /\ Newcomers = {}

\* tower i fired in the last update
Fired(i) == last.op = "update" /\ towers[i].nextFire # before.towers[i].nextFire

\* the projectiles the last update created and left
NewProjectiles == { i \in 1..Len(projectiles) : projectiles[i].id >= before.nextId }

\* C30: in a tick a tower creates at most one projectile (the projectiles
\* created are as many as the towers that fired) and fires only when simTime
\* is past its nextFire; firing sets nextFire to simTime plus the tower's
\* fireRate, so its next shot comes more than fireRate of simulated time
\* later; the projectile starts at the tower with the tower's damage and
\* type id of that moment, and no later step changes what it carries.
C30_FireCadence ==
  IF last.op = "update"
  THEN /\ Len(towers) = Len(before.towers)
       /\ \A i \in 1..Len(towers) :
            Fired(i) => /\ scaledTime > before.towers[i].nextFire
                        /\ towers[i].nextFire
                             = scaledTime + before.towers[i].config.fireRate
                        /\ towers[i].config = before.towers[i].config
       /\ nextId - before.nextId - Spawned
            = Cardinality({ i \in 1..Len(towers) : Fired(i) })
       /\ \A k \in NewProjectiles :
            \E i \in 1..Len(towers) :
              /\ Fired(i)
              /\ projectiles[k].x = towers[i].x /\ projectiles[k].y = towers[i].y
              /\ projectiles[k].damage = before.towers[i].config.damage
              /\ projectiles[k].towerId = before.towers[i].config.id
       /\ \A k \in (1..Len(projectiles)) \ NewProjectiles :
            LET p == before.projectiles[ProjectileIndex(before, projectiles[k].id)]
            IN projectiles[k].damage = p.damage /\ projectiles[k].towerId = p.towerId
  ELSE \A k \in 1..Len(projectiles) :
         /\ IsActiveProjectile(before, projectiles[k].id)
         /\ LET p == before.projectiles[ProjectileIndex(before, projectiles[k].id)]
            IN projectiles[k].damage = p.damage /\ projectiles[k].towerId = p.towerId

\* an upgraded tower has fired: the projectile carries the damage the
\* upgrades have given the tower, not that of its type
C30_Witness ==
  /\ last.op = "update"
  /\ \E i \in 1..Len(towers), k \in NewProjectiles :
       /\ Fired(i) /\ towers[i].level > 1
       /\ projectiles[k].x = towers[i].x /\ projectiles[k].y = towers[i].y
       /\ projectiles[k].damage = towers[i].config.damage
       /\ projectiles[k].damage # templates[towers[i].config.id].damage

\* C31: a placement with gold >= cost at a point not near the route takes
\* exactly the cost of the armed type from gold, adds exactly one tower, of
\* level 1 and at the point, and raises towerCount by one; no step of a run
\* removes or replaces a tower; in every state towerCount is the number of
\* towers.
C31_TowerCount ==
  /\ stats.towerCount = Len(towers)
  /\ last.op # "restart" =>
       /\ Len(towers) >= Len(before.towers)
       /\ \A i \in 1..Len(before.towers) :
            /\ towers[i].id = before.towers[i].id
            /\ towers[i].x = before.towers[i].x /\ towers[i].y = before.towers[i].y
  /\ (/\ Places
      /\ before.stats.gold >= TOWERS[before.currentTowerType].cost
      /\ ~checkPathProximity(before, last.x, last.y)) =>
       LET n == Len(before.towers)
       IN /\ stats.gold = before.stats.gold - TOWERS[before.currentTowerType].cost
          /\ stats.towerCount = before.stats.towerCount + 1
          /\ Len(towers) = n + 1
          /\ towers[n + 1].level = 1
          /\ towers[n + 1].x = last.x /\ towers[n + 1].y = last.y
          /\ towers[n + 1].config = TOWERS[before.currentTowerType]
          /\ stats = [before.stats EXCEPT !.gold = stats.gold,
                                          !.towerCount = stats.towerCount]

\* a second tower placed beside the first
C31_Witness ==
  /\ Places /\ out.cue = "placed"
  /\ Len(before.towers) = 1 /\ Len(towers) = 2 /\ stats.towerCount = 2

\* C32: every active enemy has 0 < hp <= maxHp and 0 <= t < 1 after every
\* update and every overlap callback (and in every other state); the hp of an
\* enemy only falls and its maxHp stays; a hit that brings hp to 0 or below
\* removes the enemy at once, and so does an update that brings t to 1.
C32_EnemyBounds ==
  /\ \A j \in 1..Len(enemies) :
       /\ 0 < enemies[j].hp /\ enemies[j].hp <= enemies[j].maxHp
       /\ 0 <= enemies[j].t /\ enemies[j].t < TUnit
  /\ last.op # "restart" =>
       \A j \in 1..Len(enemies) :
         IsActiveEnemy(before, enemies[j].id) =>
           LET e == before.enemies[EnemyIndex(before, enemies[j].id)]
           IN /\ enemies[j].hp <= e.hp /\ enemies[j].maxHp = e.maxHp
              /\ enemies[j].t >= e.t
  /\ Hit =>
       LET e == before.enemies[EnemyIndex(before, last.enemy)]
       IN /\ out.hits[1].damage > 0
          /\ IsActiveEnemy(Scene, last.enemy) <=> e.hp - out.hits[1].damage > 0
          /\ IsActiveEnemy(Scene, last.enemy) =>
               enemies[EnemyIndex(Scene, last.enemy)].hp = e.hp - out.hits[1].damage

\* a hit that an enemy survives: its hp is below its maxHp and above 0
C32_Witness ==
  /\ Hit /\ IsActiveEnemy(Scene, last.enemy)
  /\ enemies[EnemyIndex(Scene, last.enemy)].hp
       < enemies[EnemyIndex(Scene, last.enemy)].maxHp

\* C33: in every state, the one right after a restart in the middle of a
\* wave included, the published stats.waveActive equals the scene's
\* waveInProgress.
C33_WaveFlagsAgree == stats.waveActive = waveInProgress

\* C34: right after a restart, whenever it was issued, no enemy of the
\* previous run is left to spawn and no wave is in progress; startWave is
\* then accepted and starts a wave of 28 enemies at level 1, and the first
\* update after it, whatever its delta, spawns the first of them.
C34_RestartIsFresh ==
  last.op = "restart" =>
    /\ enemiesRemaining = 0 /\ ~waveInProgress
    /\ LET s == startWave(Scene)
       IN /\ s.waveInProgress /\ s.stats.waveActive
          /\ s.stats.level = 1 /\ s.enemiesRemaining = 28
          /\ \A d \in Deltas \cup ShortDeltas, roll \in Rolls :
               LET u == update(s, d, roll, Flat)
               IN u.enemiesRemaining = 27 /\ Len(u.enemies) = 1

\* C35: no two towers share an id, whatever the placements were, two made
\* in the same millisecond of the clock included (so that upgradeTower(id)
\* and updateTowerPriority(id) find the tower the id was given to).
C35_TowerIdsUnique ==
  \A i, j \in 1..Len(towers) : i # j => towers[i].id # towers[j].id

\* C36: within a run onGameOver is called at most once: no handler calls it
\* twice, however many enemies reach the core in the tick, and no handler
\* calls it in a run whose game is already over (lives at or below 0, or
\* level above 30, before the handler), whatever waves were started since.
C36_GameOverOnce ==
  /\ out.gameOver <= 1
  /\ (out.gameOver > 0 /\ last.op # "restart") =>
       before.stats.lives > 0 /\ before.stats.level <= 30

\* C37: a wave in progress leads to the update that completes it, as long
\* as frames keep coming: that update ends the wave with enemiesRemaining at
\* 0 and no enemy left, and raises the level by exactly one; with a tower
\* that never fires as with towers that kill, at every game speed, and
\* whether or not the lives run out.
C37_WaveCompletes ==
  waveInProgress
    ~> (/\ last.op = "update" /\ before.waveInProgress
        /\ ~waveInProgress /\ ~stats.waveActive
        /\ stats.level = before.stats.level + 1
        /\ enemiesRemaining = 0 /\ enemies = <<>>)

\* the update that completes a wave no projectile was fired in, at a game
\* speed above 1
C37_Witness ==
  /\ last.op = "update" /\ before.waveInProgress /\ ~waveInProgress
  /\ stats.level = before.stats.level + 1
  /\ enemiesRemaining = 0 /\ enemies = <<>>
  /\ timeScale > 1 /\ stats.lives < 0
  /\ nextId = WaveSize(before.stats.level) + 1

====
